---- MODULE Spec2Model ----
(***************************************************************************)
(* Model of the pushpull robot-car controllers:                            *)
(*   src/yolov8n.py       Flask server, YOLOv8 stream, /cmd/<direction>    *)
(*   src/app_improved.py  Flask server, YOLOv5 stream, one route per       *)
(*                        direction                                        *)
(*   src/clientserver.py  split-topology client loop                       *)
(* The two servers share the motor functions, gen_frames and the shutdown  *)
(* block; they differ in SKIP_FRAMES and in the command routes.            *)
(***************************************************************************)
EXTENDS Integers, Sequences, FiniteSets, TLC

(***************************************************************************)
(* Program constants                                                       *)
(***************************************************************************)
IN1 == 17
IN2 == 27
IN3 == 22
IN4 == 5

\* for pin in [IN1, IN2, IN3, IN4]
PinList == <<IN1, IN2, IN3, IN4>>
Pins == {PinList[i] : i \in 1..4}

\* SKIP_FRAMES of yolov8n.py
SKIP_FRAMES == 3
\* SKIP_FRAMES of app_improved.py (local of gen_frames)
SKIP_FRAMES_improved == 4
\* requests.post(..., timeout=2)
POST_TIMEOUT == 2

(***************************************************************************)
(* Bounds                                                                  *)
(***************************************************************************)
\* request-handler threads serving command routes at the same time
MaxCmdThreads == 2
\* frames one stream captures before the camera stops delivering
MaxFrames == 6
\* iterations of the client loop
MaxIters == 3
\* ticks of one stream on which cv2.imencode fails
MaxEncodeFailures == 1

CmdThreads == 1..MaxCmdThreads

\* viewers with /video_feed open: each runs its own gen_frames
Streams == {1, 2}

\* the tunable skip interval: the values of the two servers, and 0
SkipValues == {0, SKIP_FRAMES, SKIP_FRAMES_improved}

Direction == {"forward", "backward", "left", "right", "stop"}
\* path parameter of /cmd/<direction>: any string; "spin" stands for the
\* tokens that name no Direction
Tokens == Direction \cup {"spin"}

VARIABLES
  pins,          \* level driven on each motor-driver input line
  gpioSetUp,     \* the pin bank is set up as outputs (GPIO.setup .. GPIO.cleanup)
  gpioCleanups,  \* number of GPIO.cleanup() calls
  cameraAcquired,\* startup opened the camera (fixed once the module code ran)
  cameraOpened,  \* camera.isOpened()
  camSeq,        \* number of frames the camera has delivered
  cameraReleases,\* number of camera.release() calls
  cmdPc,         \* per handler thread: "idle", "apply", "failed"
  cmdDir,        \* per handler thread: the direction token of the request
  cmdIdx,        \* per handler thread: pin writes of the motor function done
  cmdOverlap,    \* history: another apply was in flight during this one
  lastDir,       \* history: Direction of the apply that returned last
  lastClean,     \* history: that apply overlapped no other apply
  mainPc,        \* main thread: "serving", "stop", "cleanup", "release", "done"
  mainIdx,       \* main thread: pin writes of the final stop() done
  skip,          \* SKIP_FRAMES of the running server
  genPc,         \* per stream: position in gen_frames
  frame_count,   \* per stream: gen_frames local
  frame,         \* per stream: gen_frames local, the camera frame read last
  final_display, \* per stream: gen_frames local, <<kind, camera frame>>
  captured,      \* history, per stream: camera frames read successfully
  emitted,       \* history, per stream: display frames yielded
  inferTicks,    \* history, per stream: ticks on which the detector was invoked
  failTicks,     \* history, per stream: ticks on which the detector raised
  encFailTicks,  \* history, per stream: ticks on which cv2.imencode failed
  endCause,      \* history, per stream: why the frame loop was left
  clientPc,      \* client loop position
  clientIter,    \* iterations of the client loop started
  waited,        \* seconds the pending /detect request has been waiting
  exitCause,     \* history: why the client loop was left ("none" while in it)
  outcome,       \* outcome of the /detect request of this iteration
  bodyField,     \* "action" field of the response body ("absent" if missing)
  action,        \* action token taken from the response
  iterCall,      \* motor function called in this iteration ("none" if none)
  engaged,       \* motor function called last over the whole run
  seqTok,        \* history: token of the command that ran to completion last
  seqPrev,       \* history: token of the command that ran before that one
  seqBefore,     \* history: pin vector when that last command began
  seqStatus      \* history: status code that last command was answered with

hwVars == <<pins, gpioSetUp, gpioCleanups, cameraAcquired, cameraOpened,
           camSeq, cameraReleases>>
cmdVars == <<cmdPc, cmdDir, cmdIdx, cmdOverlap, lastDir, lastClean>>
mainVars == <<mainPc, mainIdx>>
genVars == <<skip, genPc, frame_count, frame, final_display, captured,
             emitted, inferTicks, failTicks, encFailTicks, endCause>>
clientVars == <<clientPc, clientIter, waited, exitCause, outcome, bodyField,
               action, iterCall, engaged>>
seqVars == <<seqTok, seqPrev, seqBefore, seqStatus>>
vars == <<hwVars, cmdVars, mainVars, genVars, clientVars, seqVars>>

(***************************************************************************)
(* Motor functions: the GPIO.output calls of each, in program order        *)
(***************************************************************************)
forward == <<<<IN1, TRUE>>, <<IN2, FALSE>>, <<IN3, TRUE>>, <<IN4, FALSE>>>>

backward == <<<<IN1, FALSE>>, <<IN2, TRUE>>, <<IN3, FALSE>>, <<IN4, TRUE>>>>

left == <<<<IN1, FALSE>>, <<IN2, TRUE>>, <<IN3, TRUE>>, <<IN4, FALSE>>>>

right_copied == <<<<IN1, TRUE>>, <<IN2, FALSE>>, <<IN3, TRUE>>, <<IN4, FALSE>>>>

right == <<<<IN1, TRUE>>, <<IN2, FALSE>>, <<IN3, FALSE>>, <<IN4, TRUE>>>>

stop_short == [i \in 1..3 |-> <<PinList[i], FALSE>>]

stop == [i \in 1..4 |-> <<PinList[i], FALSE>>]

command_else_stop(direction) ==
  IF direction = "forward" THEN forward
  ELSE IF direction = "backward" THEN backward
  ELSE IF direction = "left" THEN left
  ELSE IF direction = "right" THEN right
  ELSE stop

\* the if/elif chain of command(direction); a token that names no
\* Direction falls through every branch and writes nothing
command(direction) ==
  IF direction = "forward" THEN forward
  ELSE IF direction = "backward" THEN backward
  ELSE IF direction = "left" THEN left
  ELSE IF direction = "right" THEN right
  ELSE IF direction = "stop" THEN stop
  ELSE << >>

\* return "", 204 whatever the token was
command_status(direction) == 204

GPIO_output_toggle(p, w) ==
  [p EXCEPT ![w[1]] = IF w[2] THEN ~p[w[1]] ELSE FALSE]

\* GPIO.output(pin, value) on a pin bank that is set up
GPIO_output(p, w) == [p EXCEPT ![w[1]] = w[2]]

\* the GPIO.output calls ws of one motor function, run one after the other
RECURSIVE RunWrites(_, _)
RunWrites(ws, p) ==
  IF ws = << >> THEN p ELSE RunWrites(Tail(ws), GPIO_output(p, Head(ws)))

AllInactive == [q \in Pins |-> FALSE]

\* thread t is inside a command handler
Busy(t) == cmdPc[t] = "apply"

(***************************************************************************)
(* Initial state: module level code of the servers has run                 *)
(***************************************************************************)
InitRest ==
  /\ gpioSetUp = TRUE
  /\ gpioCleanups = 0
  /\ cameraAcquired \in BOOLEAN
  /\ cameraOpened = cameraAcquired
  /\ camSeq = 0
  /\ cameraReleases = 0
  /\ cmdPc = [t \in CmdThreads |-> "idle"]
  /\ cmdDir = [t \in CmdThreads |-> "stop"]
  /\ cmdIdx = [t \in CmdThreads |-> 0]
  /\ cmdOverlap = [t \in CmdThreads |-> FALSE]
  /\ lastDir = "none"
  /\ lastClean = TRUE
  /\ mainIdx = 0
  /\ skip \in SkipValues
  /\ genPc = [s \in Streams |-> "idle"]
  /\ frame_count = [s \in Streams |-> 0]
  /\ frame = [s \in Streams |-> -1]
  /\ final_display = [s \in Streams |-> <<"none", -1>>]
  /\ captured = [s \in Streams |-> << >>]
  /\ emitted = [s \in Streams |-> << >>]
  /\ inferTicks = [s \in Streams |-> {}]
  /\ failTicks = [s \in Streams |-> {}]
  /\ encFailTicks = [s \in Streams |-> {}]
  /\ endCause = [s \in Streams |-> "none"]
  /\ clientIter = 0
  /\ waited = 0
  /\ exitCause = "none"
  /\ outcome = "none"
  /\ bodyField = "none"
  /\ action = "none"
  /\ iterCall = "none"
  /\ engaged = "none"
  /\ seqTok = "none"
  /\ seqPrev = "none"
  /\ seqBefore = pins
  /\ seqStatus = 0

\* the main thread is about to serve (app.run), the client loop is about
\* to read its first frame
InitOther ==
  /\ InitRest
  /\ mainPc = "serving"
  /\ clientPc = "read"

\* GPIO.output(pin, False) for each pin at startup
Init == pins = AllInactive /\ InitOther

(***************************************************************************)
(* Command routes (threaded=True: one handler thread per request)          *)
(***************************************************************************)
\* a request for /cmd/<d> (or /forward .. /stop) is dispatched to thread t
CommandRequest(t, d) ==
  /\ mainPc = "serving"
  /\ cmdPc[t] = "idle"
  /\ cmdPc' = [cmdPc EXCEPT ![t] = "apply"]
  /\ cmdDir' = [cmdDir EXCEPT ![t] = d]
  /\ cmdIdx' = [cmdIdx EXCEPT ![t] = 0]
  /\ cmdOverlap' = [u \in CmdThreads |->
                      IF u = t THEN \E v \in CmdThreads \ {t} : Busy(v)
                      ELSE cmdOverlap[u] \/ Busy(u)]
  /\ UNCHANGED <<hwVars, lastDir, lastClean, mainVars, genVars, clientVars, seqVars>>

CommandWrite_locked(t) ==
  /\ mainPc # "done"
  /\ cmdPc[t] = "apply"
  /\ cmdIdx[t] < Len(command(cmdDir[t]))
  /\ gpioSetUp
  /\ \A s \in Streams : genPc[s] # "infer"
  /\ pins' = GPIO_output(pins, command(cmdDir[t])[cmdIdx[t] + 1])
  /\ cmdIdx' = [cmdIdx EXCEPT ![t] = @ + 1]
  /\ UNCHANGED <<gpioSetUp, gpioCleanups, cameraAcquired, cameraOpened,
                 camSeq, cameraReleases, cmdPc, cmdDir, cmdOverlap, lastDir,
                 lastClean, mainVars, genVars, clientVars, seqVars>>

\* the next GPIO.output call of the motor function thread t is running
CommandWrite(t) ==
  /\ mainPc # "done"
  /\ cmdPc[t] = "apply"
  /\ cmdIdx[t] < Len(command(cmdDir[t]))
  /\ gpioSetUp
  /\ pins' = GPIO_output(pins, command(cmdDir[t])[cmdIdx[t] + 1])
  /\ cmdIdx' = [cmdIdx EXCEPT ![t] = @ + 1]
  /\ UNCHANGED <<gpioSetUp, gpioCleanups, cameraAcquired, cameraOpened,
                 camSeq, cameraReleases, cmdPc, cmdDir, cmdOverlap, lastDir,
                 lastClean, mainVars, genVars, clientVars, seqVars>>

\* the motor function has returned; the handler answers the request
CommandReturn(t) ==
  /\ mainPc # "done"
  /\ cmdPc[t] = "apply"
  /\ cmdIdx[t] = Len(command(cmdDir[t]))
  /\ cmdPc' = [cmdPc EXCEPT ![t] = "idle"]
  /\ IF cmdDir[t] \in Direction
       THEN /\ lastDir' = cmdDir[t]
            /\ lastClean' = ~cmdOverlap[t]
       ELSE UNCHANGED <<lastDir, lastClean>>
  /\ cmdDir' = [cmdDir EXCEPT ![t] = "stop"]
  /\ cmdIdx' = [cmdIdx EXCEPT ![t] = 0]
  /\ cmdOverlap' = [cmdOverlap EXCEPT ![t] = FALSE]
  /\ UNCHANGED <<hwVars, mainVars, genVars, clientVars, seqVars>>

\* GPIO.output on a pin bank that GPIO.cleanup() has released raises
\* RuntimeError; the handler thread ends with the pin untouched
CommandWriteFail(t) ==
  /\ mainPc # "done"
  /\ cmdPc[t] = "apply"
  /\ cmdIdx[t] < Len(command(cmdDir[t]))
  /\ ~gpioSetUp
  /\ cmdPc' = [cmdPc EXCEPT ![t] = "failed"]
  /\ cmdDir' = [cmdDir EXCEPT ![t] = "stop"]
  /\ cmdIdx' = [cmdIdx EXCEPT ![t] = 0]
  /\ cmdOverlap' = [cmdOverlap EXCEPT ![t] = FALSE]
  /\ UNCHANGED <<hwVars, lastDir, lastClean, mainVars, genVars, clientVars, seqVars>>

\* a request for /cmd/<d> handled from dispatch to response while no other
\* command is in flight: the motor function runs all its writes in a row
CommandSequential(d) ==
  /\ mainPc = "serving"
  /\ \A t \in CmdThreads : cmdPc[t] = "idle"
  /\ gpioSetUp
  /\ pins' = RunWrites(command(d), pins)
  /\ IF d \in Direction
       THEN /\ lastDir' = d
            /\ lastClean' = TRUE
       ELSE UNCHANGED <<lastDir, lastClean>>
  /\ seqPrev' = seqTok
  /\ seqTok' = d
  /\ seqBefore' = pins
  /\ seqStatus' = command_status(d)
  /\ UNCHANGED <<gpioSetUp, gpioCleanups, cameraAcquired, cameraOpened,
                 camSeq, cameraReleases, cmdPc, cmdDir, cmdIdx, cmdOverlap,
                 mainVars, genVars, clientVars>>

(***************************************************************************)
(* gen_frames: one generator per /video_feed request                       *)
(***************************************************************************)
IsInferTick_late(fc, n) == (fc + 1) % (n + 1) = 0

\* if frame_count % (SKIP_FRAMES + 1) == 0
IsInferTick(fc, n) == fc % (n + 1) = 0

\* /video_feed: Response(gen_frames(), ...) starts a generator
VideoFeed(s) ==
  /\ mainPc = "serving"
  /\ genPc[s] = "idle"
  /\ genPc' = [genPc EXCEPT ![s] = "top"]
  /\ frame_count' = [frame_count EXCEPT ![s] = 0]
  /\ UNCHANGED <<hwVars, cmdVars, mainVars, skip, frame, final_display,
                 captured, emitted, inferTicks, failTicks,
                 clientVars, seqVars, encFailTicks, endCause>>

\* if camera is None or not camera.isOpened(): break
LoopCheck_unchecked(s) ==
  /\ mainPc # "done"
  /\ genPc[s] = "top"
  /\ genPc' = [genPc EXCEPT ![s] = "read"]
  /\ UNCHANGED <<hwVars, cmdVars, mainVars, skip, frame_count, frame,
                 final_display, captured, emitted, inferTicks, failTicks,
                 clientVars, seqVars, encFailTicks, endCause>>

LoopCheck(s) ==
  /\ mainPc # "done"
  /\ genPc[s] = "top"
  /\ genPc' = [genPc EXCEPT ![s] = IF cameraOpened THEN "read" ELSE "ended"]
  /\ endCause' = [endCause EXCEPT ![s] = IF cameraOpened THEN @ ELSE "nocamera"]
  /\ UNCHANGED <<hwVars, cmdVars, mainVars, skip, frame_count, frame,
                 final_display, captured, emitted, inferTicks, failTicks,
                 clientVars, seqVars, encFailTicks>>

\* success, frame = camera.read() with success True
ReadOk(s) ==
  /\ mainPc # "done"
  /\ genPc[s] = "read"
  /\ cameraOpened
  /\ camSeq < MaxFrames
  /\ frame' = [frame EXCEPT ![s] = camSeq]
  /\ camSeq' = camSeq + 1
  /\ captured' = [captured EXCEPT ![s] = Append(@, camSeq)]
  /\ genPc' = [genPc EXCEPT ![s] = "sched"]
  /\ UNCHANGED <<pins, gpioSetUp, gpioCleanups, cameraAcquired, cameraOpened,
                 cameraReleases, cmdVars, mainVars, skip, frame_count,
                 final_display, emitted, inferTicks, failTicks,
                 clientVars, seqVars, encFailTicks, endCause>>

ReadFail_retry(s) ==
  /\ mainPc # "done"
  /\ genPc[s] = "read"
  /\ genPc' = [genPc EXCEPT ![s] = "top"]
  /\ endCause' = [endCause EXCEPT ![s] = "read"]
  /\ UNCHANGED <<hwVars, cmdVars, mainVars, skip, frame_count, frame,
                 final_display, captured, emitted, inferTicks, failTicks,
                 clientVars, seqVars, encFailTicks>>

\* success, frame = camera.read() with success False: break.  A read on a
\* capture that camera.release() has closed can only fail.
ReadFail(s) ==
  /\ mainPc # "done"
  /\ genPc[s] = "read"
  /\ genPc' = [genPc EXCEPT ![s] = "ended"]
  /\ endCause' = [endCause EXCEPT ![s] =
                    IF cameraOpened THEN "read" ELSE "released"]
  /\ UNCHANGED <<hwVars, cmdVars, mainVars, skip, frame_count, frame,
                 final_display, captured, emitted, inferTicks, failTicks,
                 clientVars, seqVars, encFailTicks>>

\* the if branch: results = model(frame, ...) is called
Infer(s) ==
  /\ mainPc # "done"
  /\ genPc[s] = "sched"
  /\ IsInferTick(frame_count[s], skip)
  /\ inferTicks' = [inferTicks EXCEPT ![s] = @ \cup {frame_count[s]}]
  /\ genPc' = [genPc EXCEPT ![s] = "infer"]
  /\ UNCHANGED <<hwVars, cmdVars, mainVars, skip, frame_count, frame,
                 final_display, captured, emitted, failTicks,
                 clientVars, seqVars, encFailTicks, endCause>>

\* the model call returns: final_display = annotated_frame; frame_count += 1
InferReturn(s) ==
  /\ mainPc # "done"
  /\ genPc[s] = "infer"
  /\ final_display' = [final_display EXCEPT ![s] = <<"annotated", frame[s]>>]
  /\ frame_count' = [frame_count EXCEPT ![s] = @ + 1]
  /\ genPc' = [genPc EXCEPT ![s] = "encode"]
  /\ UNCHANGED <<hwVars, cmdVars, mainVars, skip, frame, captured, emitted,
                 inferTicks, failTicks,
                 clientVars, seqVars, encFailTicks, endCause>>

\* the model call raises: nothing in gen_frames catches it, the exception
\* leaves the generator and ends the response
InferRaise(s) ==
  /\ mainPc # "done"
  /\ genPc[s] = "infer"
  /\ failTicks' = [failTicks EXCEPT ![s] = @ \cup {frame_count[s]}]
  /\ genPc' = [genPc EXCEPT ![s] = "raised"]
  /\ UNCHANGED <<hwVars, cmdVars, mainVars, skip, frame_count, frame,
                 final_display, captured, emitted, inferTicks, clientVars, seqVars,
                 encFailTicks, endCause>>

\* the else branch: final_display = frame; frame_count += 1
PassThrough(s) ==
  /\ mainPc # "done"
  /\ genPc[s] = "sched"
  /\ ~IsInferTick(frame_count[s], skip)
  /\ final_display' = [final_display EXCEPT ![s] = <<"raw", frame[s]>>]
  /\ frame_count' = [frame_count EXCEPT ![s] = @ + 1]
  /\ genPc' = [genPc EXCEPT ![s] = "encode"]
  /\ UNCHANGED <<hwVars, cmdVars, mainVars, skip, frame, captured, emitted,
                 inferTicks, failTicks,
                 clientVars, seqVars, encFailTicks, endCause>>

\* cv2.imencode('.jpg', final_display); yield the chunk
Yield(s) ==
  /\ mainPc # "done"
  /\ genPc[s] = "encode"
  /\ emitted' = [emitted EXCEPT ![s] = Append(@, final_display[s])]
  /\ genPc' = [genPc EXCEPT ![s] = "yield"]
  /\ UNCHANGED <<hwVars, cmdVars, mainVars, skip, frame_count, frame,
                 final_display, captured, inferTicks, failTicks,
                 clientVars, seqVars, encFailTicks, endCause>>

\* the server has written the chunk and asks the generator for the next one
Resume(s) ==
  /\ mainPc # "done"
  /\ genPc[s] = "yield"
  /\ genPc' = [genPc EXCEPT ![s] = "top"]
  /\ UNCHANGED <<hwVars, cmdVars, mainVars, skip, frame_count, frame,
                 final_display, captured, emitted, inferTicks, failTicks,
                 clientVars, seqVars,
                 encFailTicks, endCause>>

\* the viewer disconnects: the server closes the generator at its yield
ViewerDisconnect(s) ==
  /\ mainPc # "done"
  /\ genPc[s] = "yield"
  /\ genPc' = [genPc EXCEPT ![s] = "ended"]
  /\ endCause' = [endCause EXCEPT ![s] = "viewer"]
  /\ UNCHANGED <<hwVars, cmdVars, mainVars, skip, frame_count, frame,
                 final_display, captured, emitted, inferTicks, failTicks,
                 clientVars, seqVars, encFailTicks>>

\* cv2.imencode raises cv2.error (empty or corrupt frame): nothing in
\* gen_frames catches it, the exception leaves the generator
EncodeRaise(s) ==
  /\ mainPc # "done"
  /\ genPc[s] = "encode"
  /\ Cardinality(encFailTicks[s]) < MaxEncodeFailures
  /\ encFailTicks' = [encFailTicks EXCEPT ![s] = @ \cup {frame_count[s] - 1}]
  /\ genPc' = [genPc EXCEPT ![s] = "raised"]
  /\ UNCHANGED <<hwVars, cmdVars, mainVars, skip, frame_count, frame,
                 final_display, captured, emitted, inferTicks, failTicks,
                 clientVars, seqVars, endCause>>

\* cv2.imencode returns ret False: ret is never looked at, the chunk is
\* built from buffer and yielded all the same
EncodeFalse(s) ==
  /\ mainPc # "done"
  /\ genPc[s] = "encode"
  /\ Cardinality(encFailTicks[s]) < MaxEncodeFailures
  /\ encFailTicks' = [encFailTicks EXCEPT ![s] = @ \cup {frame_count[s] - 1}]
  /\ emitted' = [emitted EXCEPT ![s] = Append(@, final_display[s])]
  /\ genPc' = [genPc EXCEPT ![s] = "yield"]
  /\ UNCHANGED <<hwVars, cmdVars, mainVars, skip, frame_count, frame,
                 final_display, captured, inferTicks, failTicks,
                 clientVars, seqVars, endCause>>

gen_frames(s) ==
  \/ LoopCheck(s)
  \/ ReadOk(s)
  \/ ReadFail(s)
  \/ Infer(s)
  \/ InferReturn(s)
  \/ InferRaise(s)
  \/ PassThrough(s)
  \/ Yield(s)
  \/ EncodeRaise(s)
  \/ EncodeFalse(s)
  \/ Resume(s)
  \/ ViewerDisconnect(s)

(***************************************************************************)
(* __main__: app.run(...) and the finally block                            *)
(***************************************************************************)
\* app.run returns (Ctrl+C) or raises: the finally block begins.  Handler
\* threads are daemon threads: they keep running until the process exits.
ShutdownBegin ==
  /\ mainPc = "serving"
  /\ mainPc' = "stop"
  /\ mainIdx' = 0
  /\ cmdOverlap' = [u \in CmdThreads |-> cmdOverlap[u] \/ Busy(u)]
  /\ UNCHANGED <<hwVars, cmdPc, cmdDir, cmdIdx, lastDir, lastClean, genVars,
                 clientVars, seqVars>>

\* stop(): the next GPIO.output(pin, False) of its loop
ShutdownStop ==
  /\ mainPc = "stop"
  /\ mainIdx < Len(stop)
  /\ pins' = GPIO_output(pins, stop[mainIdx + 1])
  /\ mainIdx' = mainIdx + 1
  /\ UNCHANGED <<gpioSetUp, gpioCleanups, cameraAcquired, cameraOpened,
                 camSeq, cameraReleases, cmdVars, mainPc, genVars, clientVars, seqVars>>

ShutdownCleanup_early ==
  /\ mainPc = "stop"
  /\ gpioSetUp' = FALSE
  /\ gpioCleanups' = gpioCleanups + 1
  /\ pins' = AllInactive
  /\ mainPc' = "release"
  /\ UNCHANGED <<cameraAcquired, cameraOpened, camSeq, cameraReleases,
                 cmdVars, mainIdx, genVars, clientVars, seqVars>>

\* GPIO.cleanup(): every channel that was set up goes back to an input, so
\* no line is driven any more
ShutdownCleanup ==
  /\ mainPc = "stop"
  /\ mainIdx = Len(stop)
  /\ gpioSetUp' = FALSE
  /\ gpioCleanups' = gpioCleanups + 1
  /\ pins' = AllInactive
  /\ mainPc' = "release"
  /\ UNCHANGED <<cameraAcquired, cameraOpened, camSeq, cameraReleases,
                 cmdVars, mainIdx, genVars, clientVars, seqVars>>

ShutdownRelease_unguarded ==
  /\ mainPc = "release"
  /\ cameraOpened' = FALSE
  /\ cameraReleases' = cameraReleases + 1
  /\ mainPc' = "exit"
  /\ UNCHANGED <<pins, gpioSetUp, gpioCleanups, cameraAcquired, camSeq,
                 cmdVars, mainIdx, genVars, clientVars, seqVars>>

\* if camera and camera.isOpened(): camera.release()
ShutdownRelease ==
  /\ mainPc = "release"
  /\ IF cameraOpened
       THEN /\ cameraOpened' = FALSE
            /\ cameraReleases' = cameraReleases + 1
       ELSE UNCHANGED <<cameraOpened, cameraReleases>>
  /\ mainPc' = "exit"
  /\ UNCHANGED <<pins, gpioSetUp, gpioCleanups, cameraAcquired, camSeq,
                 cmdVars, mainIdx, genVars, clientVars, seqVars>>

\* print("Cleanup complete.") and the interpreter exits: the daemon handler
\* threads, which ran until here, end with the process
ShutdownExit ==
  /\ mainPc = "exit"
  /\ mainPc' = "done"
  /\ UNCHANGED <<hwVars, cmdVars, mainIdx, genVars, clientVars, seqVars>>

(***************************************************************************)
(* clientserver.py: the client loop and its finally block                  *)
(***************************************************************************)
\* status codes of a /detect response: 200 and one that is not
StatusCodes == {200, 500}

\* the "action" field of the JSON body; "absent" when the field is missing,
\* "spin" for a token the client does not know
ActionFields == Direction \cup {"spin", "absent"}

\* action = data.get("action", "stop")
data_get(field) == IF field = "absent" THEN "stop" ELSE field

MotorCommand_with_backward(a) ==
  IF a = "forward" THEN "forward"
  ELSE IF a = "backward" THEN "backward"
  ELSE IF a = "left" THEN "left"
  ELSE IF a = "right" THEN "right"
  ELSE "stop"

\* the if/elif/else chain of step 5: the motor function that is called
MotorCommand(a) ==
  IF a = "forward" THEN "forward"
  ELSE IF a = "left" THEN "left"
  ELSE IF a = "right" THEN "right"
  ELSE "stop"

\* success, frame = camera.read() with success True; the frame is encoded
\* and requests.post(PC_SERVER_URL, files=files, timeout=2) is sent
ClientRead ==
  /\ clientPc = "read"
  /\ cameraOpened
  /\ clientIter < MaxIters
  /\ clientIter' = clientIter + 1
  /\ camSeq' = camSeq + 1
  /\ waited' = 0
  /\ outcome' = "none"
  /\ bodyField' = "none"
  /\ action' = "none"
  /\ iterCall' = "none"
  /\ clientPc' = "post"
  /\ UNCHANGED <<pins, gpioSetUp, gpioCleanups, cameraAcquired, cameraOpened,
                 cameraReleases, cmdVars, mainVars, genVars, seqVars,
                 exitCause, engaged>>

\* if not success: break
ClientReadFail ==
  /\ clientPc = "read"
  /\ clientPc' = "finally"
  /\ exitCause' = "read"
  /\ UNCHANGED <<hwVars, cmdVars, mainVars, genVars, seqVars,
                 bodyField, clientIter, waited,
                 outcome, action, iterCall, engaged>>

\* a second passes without an answer
ClientWait ==
  /\ clientPc = "post"
  /\ waited < POST_TIMEOUT
  /\ waited' = waited + 1
  /\ UNCHANGED <<hwVars, cmdVars, mainVars, genVars, seqVars,
                 bodyField, clientPc, clientIter,
                 exitCause, outcome, action, iterCall, engaged>>

\* the response arrives in time; if response.status_code == 200 the action
\* is read from the body, any other response is dropped without an else
ClientResponse(status, field) ==
  /\ clientPc = "post"
  /\ waited < POST_TIMEOUT
  /\ IF status = 200
       THEN /\ outcome' = "ok"
            /\ bodyField' = field
            /\ action' = data_get(field)
            /\ clientPc' = "execute"
       ELSE /\ outcome' = "non200"
            /\ bodyField' = bodyField
            /\ action' = action
            /\ clientPc' = "read"
  /\ UNCHANGED <<hwVars, cmdVars, mainVars, genVars, seqVars, clientIter,
                 waited, exitCause, iterCall, engaged>>

\* no answer within timeout=2: requests raises Timeout
ClientTimeout ==
  /\ clientPc = "post"
  /\ waited = POST_TIMEOUT
  /\ outcome' = "timeout"
  /\ clientPc' = "except"
  /\ UNCHANGED <<hwVars, cmdVars, mainVars, genVars, seqVars,
                 bodyField, clientIter, waited,
                 exitCause, action, iterCall, engaged>>

\* the connection fails: requests raises ConnectionError
ClientTransportError ==
  /\ clientPc = "post"
  /\ outcome' = "transport"
  /\ clientPc' = "except"
  /\ UNCHANGED <<hwVars, cmdVars, mainVars, genVars, seqVars,
                 bodyField, clientIter, waited,
                 exitCause, action, iterCall, engaged>>

\* a 200 response whose body makes response.json(), data.get or
\* action.upper() raise something that is no RequestException (a JSON list,
\* "action": null): nothing catches it, the exception leaves the loop
ClientBodyRaise ==
  /\ clientPc = "post"
  /\ waited < POST_TIMEOUT
  /\ outcome' = "badbody"
  /\ exitCause' = "exception"
  /\ clientPc' = "finally"
  /\ UNCHANGED <<hwVars, cmdVars, mainVars, genVars, seqVars,
                 bodyField, clientIter, waited, action, iterCall, engaged>>

\* step 5, Execute Motor Command
ClientExecute ==
  /\ clientPc = "execute"
  /\ iterCall' = MotorCommand(action)
  /\ engaged' = MotorCommand(action)
  /\ clientPc' = "read"
  /\ UNCHANGED <<hwVars, cmdVars, mainVars, genVars, seqVars,
                 bodyField, clientIter, waited,
                 exitCause, outcome, action>>

ClientExcept_silent ==
  /\ clientPc = "except"
  /\ clientPc' = "sleep"
  /\ UNCHANGED <<hwVars, cmdVars, mainVars, genVars, seqVars,
                 bodyField, clientIter, waited,
                 exitCause, outcome, action, iterCall, engaged>>

\* except requests.exceptions.RequestException: stop()
ClientExcept ==
  /\ clientPc = "except"
  /\ iterCall' = "stop"
  /\ engaged' = "stop"
  /\ clientPc' = "sleep"
  /\ UNCHANGED <<hwVars, cmdVars, mainVars, genVars, seqVars,
                 bodyField, clientIter, waited,
                 exitCause, outcome, action>>

\* time.sleep(1), then the next iteration of while True
ClientSleep ==
  /\ clientPc = "sleep"
  /\ clientPc' = "read"
  /\ UNCHANGED <<hwVars, cmdVars, mainVars, genVars, seqVars,
                 bodyField, clientIter, waited,
                 exitCause, outcome, action, iterCall, engaged>>

\* Ctrl+C: KeyboardInterrupt is no RequestException, it leaves the loop
ClientInterrupt ==
  /\ clientPc \in {"read", "post", "execute", "except", "sleep"}
  /\ clientPc' = "finally"
  /\ exitCause' = "interrupt"
  /\ UNCHANGED <<hwVars, cmdVars, mainVars, genVars, seqVars,
                 bodyField, clientIter, waited,
                 outcome, action, iterCall, engaged>>

\* finally: stop()
ClientFinallyStop ==
  /\ clientPc = "finally"
  /\ engaged' = "stop"
  /\ clientPc' = "cleanup"
  /\ UNCHANGED <<hwVars, cmdVars, mainVars, genVars, seqVars,
                 bodyField, clientIter, waited,
                 exitCause, outcome, action, iterCall>>

\* GPIO.cleanup()
ClientCleanup ==
  /\ clientPc = "cleanup"
  /\ gpioSetUp' = FALSE
  /\ gpioCleanups' = gpioCleanups + 1
  /\ pins' = AllInactive
  /\ clientPc' = "release"
  /\ UNCHANGED <<cameraAcquired, cameraOpened, camSeq, cameraReleases,
                 cmdVars, mainVars, genVars, seqVars,
                 bodyField, clientIter, waited, exitCause,
                 outcome, action, iterCall, engaged>>

\* camera.release(), whether or not the camera is open
ClientRelease ==
  /\ clientPc = "release"
  /\ cameraOpened' = FALSE
  /\ cameraReleases' = cameraReleases + 1
  /\ clientPc' = "done"
  /\ UNCHANGED <<pins, gpioSetUp, gpioCleanups, cameraAcquired, camSeq,
                 cmdVars, mainVars, genVars, seqVars,
                 bodyField, clientIter, waited, exitCause,
                 outcome, action, iterCall, engaged>>

(***************************************************************************)
(* Specifications                                                          *)
(***************************************************************************)
\* the command routes alone, MaxCmdThreads requests in flight
InitCmd == Init /\ cameraAcquired /\ skip = SKIP_FRAMES

NextCmd ==
  \/ \E t \in CmdThreads, d \in Tokens : CommandRequest(t, d)
  \/ \E t \in CmdThreads : CommandWrite(t)
  \/ \E t \in CmdThreads : CommandReturn(t)

SpecCmd == InitCmd /\ [][NextCmd]_vars

\* commands one after the other, from any pin vector that interleaved
\* commands can leave behind
InitSeq ==
  /\ pins \in [Pins -> BOOLEAN]
  /\ InitOther
  /\ cameraAcquired
  /\ skip = SKIP_FRAMES

NextSeq == \E d \in Tokens : CommandSequential(d)

SpecSeq == InitSeq /\ [][NextSeq]_vars

\* one viewer stream
NextStream ==
  \/ VideoFeed(1)
  \/ gen_frames(1)

SpecStream == Init /\ [][NextStream]_vars

\* two viewers at once: each /video_feed request runs its own generator on
\* its own handler thread, all of them calling the one global model
InitViewers == Init /\ cameraAcquired /\ skip = SKIP_FRAMES

NextViewers == \E s \in Streams : VideoFeed(s) \/ gen_frames(s)

SpecViewers == InitViewers /\ [][NextViewers]_vars

\* the whole server process: one viewer stream, one command in flight and
\* the main thread running into its finally block
InitLife == Init /\ skip = SKIP_FRAMES

NextLife ==
  \/ \E d \in Tokens : CommandRequest(1, d)
  \/ CommandWrite(1)
  \/ CommandWriteFail(1)
  \/ CommandReturn(1)
  \/ VideoFeed(1)
  \/ gen_frames(1)
  \/ ShutdownBegin
  \/ ShutdownStop
  \/ ShutdownCleanup
  \/ ShutdownRelease
  \/ ShutdownExit

SpecLife == InitLife /\ [][NextLife]_vars

\* the split-topology client process
InitClient == Init /\ skip = SKIP_FRAMES

NextClient ==
  \/ ClientRead
  \/ ClientReadFail
  \/ ClientWait
  \/ \E status \in StatusCodes, field \in ActionFields :
       ClientResponse(status, field)
  \/ ClientTimeout
  \/ ClientTransportError
  \/ ClientBodyRaise
  \/ ClientExecute
  \/ ClientExcept
  \/ ClientSleep
  \/ ClientInterrupt
  \/ ClientFinallyStop
  \/ ClientCleanup
  \/ ClientRelease

SpecClient == InitClient /\ [][NextClient]_vars

\* either program from start to exit: a server process (there is no client
\* loop in it) or the client process (there is no serving main thread in it)
InitExit ==
  /\ pins = AllInactive
  /\ InitRest
  /\ skip = SKIP_FRAMES
  /\ \/ mainPc = "serving" /\ clientPc = "absent"
     \/ mainPc = "absent" /\ clientPc = "read"

NextExit ==
  \/ NextLife
  \/ NextClient

SpecExit == InitExit /\ [][NextExit]_vars

(***************************************************************************)
(* Properties of the motor functions and the command routes                *)
(***************************************************************************)
ActivePins == {q \in Pins : pins[q]}

\* the per-side truth table: IN1/IN2 drive side A forward/reverse,
\* IN3/IN4 drive side B forward/reverse
TruthTable(d) ==
  CASE d = "forward" -> {IN1, IN3}
    [] d = "backward" -> {IN2, IN4}
    [] d = "left" -> {IN2, IN3}
    [] d = "right" -> {IN1, IN4}
    [] d = "stop" -> {}

DirectionPatterns == {TruthTable(d) : d \in Direction}

\* no handler is inside a command and the shutdown block has not begun
Quiescent == (\A t \in CmdThreads : ~Busy(t)) /\ mainPc = "serving"

\* the apply that returned last was a Direction and overlapped no other apply
CleanApply(d) == Quiescent /\ lastDir = d /\ lastClean

\* C3: at every instant, also between the pin writes of one motor
\* function, the four lines show the pattern of one of the five Directions.
C3_PinsAlwaysShowADirection == ActivePins \in DirectionPatterns

\* C4: once every in-flight command has returned, the four lines show the
\* complete pattern of one Direction, never a mix of two commands.
C4_ReturnedCommandsLeaveOneDirection ==
  (\A t \in CmdThreads : ~Busy(t)) => ActivePins \in DirectionPatterns

\* C9 as claimed: after a completed, non-overlapped apply of any of the
\* five Directions exactly two lines are active, those of the truth table.
C9_EveryDirectionTwoActive ==
  \A d \in Direction :
    CleanApply(d) =>
      /\ Cardinality(ActivePins) = 2
      /\ d # "stop" => ActivePins = TruthTable(d)

\* C9 as amended: after a completed, non-overlapped apply of forward,
\* backward, left or right exactly two lines are active, those of the truth
\* table; after stop the number of active lines is zero, not two.
C9_MotionDirectionsTwoActive ==
  \A d \in Direction :
    CleanApply(d) =>
      IF d = "stop" THEN Cardinality(ActivePins) = 0
      ELSE Cardinality(ActivePins) = 2 /\ ActivePins = TruthTable(d)

C9_Witness == CleanApply("right") /\ ActivePins = {IN1, IN4}

\* C10: a completed stop() that overlapped no other command leaves all four
\* lines inactive, whatever the lines showed before.
C10_StopClearsAllPins == CleanApply("stop") => pins = AllInactive

C10_Witness == CleanApply("stop") /\ ActivePins = {}

\* C11: applying the same Direction twice in succession, with nothing in
\* between, leaves the same pin vector after the second apply as after the
\* first, for every Direction and every prior pin vector.
C11_SameDirectionTwiceIsIdempotent ==
  (seqTok \in Direction /\ seqPrev = seqTok) => pins = seqBefore

C11_Witness ==
  /\ seqTok = "left"
  /\ seqPrev = "left"
  /\ pins = seqBefore
  /\ ActivePins = {IN2, IN3}

\* C14 as claimed: on /cmd/<direction> a token that names no Direction is
\* applied as Stop (all lines inactive afterwards) or is rejected with a
\* client-error status.
C14_UnknownTokenStopsOrIsRejected ==
  seqTok = "spin" => (pins = AllInactive \/ seqStatus \in 400..499)

\* C14 as amended: on /cmd/<direction> a token that names no Direction is
\* a no-op answered with 204: no line is written, the pin vector stays what
\* it was, and the same token always has this outcome.
C14_UnknownTokenIsNoOp ==
  seqTok = "spin" => (pins = seqBefore /\ seqStatus = 204)

C14_Witness ==
  /\ seqTok = "spin"
  /\ seqPrev = "forward"
  /\ ActivePins = {IN1, IN3}
  /\ seqStatus = 204

(***************************************************************************)
(* Properties of gen_frames                                                *)
(***************************************************************************)
\* the scheduling decision of tick t has been taken by stream s
Decided(s, t) ==
  \/ t < frame_count[s]
  \/ t = frame_count[s] /\ genPc[s] = "infer"
  \/ t = frame_count[s] /\ genPc[s] = "raised" /\ t \in failTicks[s]

\* ceil(k / (n + 1))
CeilDiv(k, n) == (k + n) \div (n + 1)

Annotated(s) == {i \in DOMAIN emitted[s] : emitted[s][i][1] = "annotated"}

\* stream s is between two ticks, or over
BetweenTicks(s) == genPc[s] \in {"top", "read", "yield", "ended", "raised"}

\* C1: the detector is invoked on tick t if and only if
\* t mod (SKIP_FRAMES + 1) = 0; with N = 0 on every tick, with N = 3 on
\* ticks 0, 4, 8, ...
C1_InferExactlyOnMultiples ==
  \A s \in Streams, t \in 0..MaxFrames :
    Decided(s, t) => (t \in inferTicks[s] <=> t % (skip + 1) = 0)

C1_Witness ==
  /\ skip = SKIP_FRAMES
  /\ frame_count[1] = 6
  /\ inferTicks[1] = {0, 4}

\* C2: K captured frames give exactly K display frames, one per captured
\* frame and in capture order, ceil(K/(N+1)) of them annotated and the
\* others the raw frame of their tick.
C2_OneDisplayFramePerCapturedFrame ==
  \A s \in Streams :
    BetweenTicks(s) =>
      /\ Len(emitted[s]) = Len(captured[s])
      /\ \A i \in DOMAIN emitted[s] :
           /\ emitted[s][i][2] = captured[s][i]
           /\ emitted[s][i][1] \in {"annotated", "raw"}
      /\ Cardinality(Annotated(s)) = CeilDiv(Len(captured[s]), skip)

\* C6: when the detector raises on a tick, no exception leaves gen_frames
\* and the display frame of that tick is the raw captured frame.
C6_DetectorFailureFallsBackToRaw ==
  \A s \in Streams :
    \A t \in failTicks[s] :
      /\ genPc[s] # "raised"
      /\ Len(emitted[s]) > t => emitted[s][t + 1] = <<"raw", captured[s][t + 1]>>

\* C12: when JPEG encoding of the display frame fails on a tick, no chunk is
\* emitted for that tick and the stream keeps running (no exception leaves
\* gen_frames).
C12_EncodeFailureSkipsChunkAndGoesOn ==
  \A s \in Streams :
    \A t \in encFailTicks[s] :
      /\ genPc[s] # "raised"
      /\ \A i \in 1..Len(emitted[s]) : emitted[s][i][2] # captured[s][t + 1]

\* C15: at most one detector invocation is in progress at any instant,
\* also when two viewers are streaming at once.
C15_AtMostOneInferenceInProgress ==
  Cardinality({s \in Streams : genPc[s] = "infer"}) <= 1

\* the steps of gen_frames during which a stream is running
StreamRunningPcs == {"top", "read", "sched", "infer", "encode", "yield"}

\* C16: while the server is serving, a command request can be accepted, can
\* take its next pin write and can complete in every state of the streaming
\* task (frame read, inference call, encode, blocked write to the viewer),
\* and the streaming task can take its next step in every state of a
\* command: neither waits for the other.
C16_CommandsAndStreamNeverWaitForEachOther ==
  mainPc = "serving" =>
    /\ cmdPc[1] = "idle" => \A d \in Direction : ENABLED CommandRequest(1, d)
    /\ cmdPc[1] = "apply" => ENABLED (CommandWrite(1) \/ CommandReturn(1))
    /\ genPc[1] \in StreamRunningPcs => ENABLED gen_frames(1)

C16_Witness ==
  /\ mainPc = "serving"
  /\ genPc[1] = "infer"
  /\ cmdPc[1] = "apply"
  /\ cmdDir[1] = "forward"
  /\ cmdIdx[1] = 2
  /\ ActivePins = {IN1}

\* the steps of the client's shutdown block
ClientShutdownPcs == {"finally", "cleanup", "release", "done"}

\* C18: a camera read that fails, or a loop check that finds the camera
\* absent or closed, ends the frame loop of that stream: no chunk is emitted
\* by the step, and afterwards the stream never reads, infers or emits
\* again; in the client a failed read leaves the loop for the shutdown
\* block, and the client never reads or drives the motors from the loop
\* again.
C18_ReadFailureEndsTheLoop ==
  [][/\ \A s \in Streams :
          /\ (/\ genPc[s] = "read"
              /\ genPc'[s] # "read"
              /\ captured'[s] = captured[s])
               => (genPc'[s] = "ended" /\ emitted'[s] = emitted[s])
          /\ (genPc[s] = "top" /\ ~cameraOpened /\ genPc'[s] # "top")
               => /\ genPc'[s] = "ended"
                  /\ captured'[s] = captured[s]
                  /\ emitted'[s] = emitted[s]
          /\ (genPc[s] = "ended" /\ endCause[s] \in {"read", "nocamera", "released"})
               => /\ genPc'[s] = "ended"
                  /\ captured'[s] = captured[s]
                  /\ emitted'[s] = emitted[s]
                  /\ inferTicks'[s] = inferTicks[s]
     /\ (exitCause # "read" /\ exitCause' = "read")
          => (clientPc = "read" /\ clientPc' = "finally" /\ camSeq' = camSeq)
     /\ exitCause = "read"
          => /\ clientPc' \in ClientShutdownPcs
             /\ clientIter' = clientIter
             /\ camSeq' = camSeq
             /\ iterCall' = iterCall]_vars

C18_Witness ==
  /\ genPc[1] = "ended"
  /\ endCause[1] = "read"
  /\ Len(captured[1]) = 2
  /\ Len(emitted[1]) = 2

(***************************************************************************)
(* Properties of startup                                                   *)
(***************************************************************************)
\* C13 as claimed: when startup fails to acquire the camera the process
\* aborts before the server accepts a request, so the server never handles
\* a request while the camera is not acquired.
C13_NeverServingWithoutCamera ==
  (\/ \E t \in CmdThreads : cmdPc[t] # "idle"
   \/ \E s \in Streams : genPc[s] # "idle") => cameraAcquired

\* C13 as amended: when startup fails to acquire the camera the failure is
\* only printed and the server starts all the same; it serves commands, and
\* every /video_feed stream ends at its first loop check: no camera read,
\* no inference and no chunk ever happens while the camera is not acquired.
C13_WithoutCameraNoStreamEverReads ==
  ~cameraAcquired =>
    /\ camSeq = 0
    /\ \A s \in Streams :
         /\ genPc[s] \in {"idle", "top", "ended"}
         /\ captured[s] = << >>
         /\ emitted[s] = << >>
         /\ inferTicks[s] = {}
         /\ genPc[s] = "ended" => endCause[s] \in {"nocamera", "viewer"}

C13_Witness ==
  /\ ~cameraAcquired
  /\ mainPc = "serving"
  /\ genPc[1] = "ended"
  /\ endCause[1] = "nocamera"
  /\ CleanApply("forward")

(***************************************************************************)
(* Properties of shutdown                                                  *)
(***************************************************************************)
\* C5 as claimed: after the shutdown block has run the four lines are
\* inactive, the pin bank has been released exactly once and the camera
\* handle has been released exactly once.
C5_ShutdownReleasesBothOnce ==
  mainPc = "done" =>
    /\ pins = AllInactive
    /\ gpioCleanups = 1
    /\ cameraReleases = 1

\* C5 as amended: after the shutdown block of a server has run the four
\* lines are inactive, the pin bank has been released exactly once, and the
\* camera handle has been released exactly once if startup had opened it and
\* not at all if it had not; in both cases the camera is closed.
C5_ShutdownReleasesWhatWasAcquired ==
  mainPc = "done" =>
    /\ pins = AllInactive
    /\ ~gpioSetUp
    /\ gpioCleanups = 1
    /\ ~cameraOpened
    /\ cameraReleases = (IF cameraAcquired THEN 1 ELSE 0)

C5_Witness ==
  /\ mainPc = "done"
  /\ cameraReleases = 1
  /\ genPc[1] = "read"
  /\ cmdPc[1] = "apply" /\ cmdDir[1] = "forward" /\ cmdIdx[1] = 2

\* the shutdown block has issued its stop() completely and nothing else yet
StopIssuedByShutdown ==
  \/ mainPc = "stop" /\ mainIdx = Len(stop)
  \/ clientPc = "cleanup" /\ engaged = "stop"

\* C17: on every exit path of the serving loop and of the client loop
\* (return, interrupt, unhandled exception) the pin bank is released only
\* by a step taken right after the shutdown block's stop() has been issued,
\* the camera is released only after the pin bank has been released, and a
\* process that has exited has released the pin bank.
C17_StopThenPinsThenCamera ==
  [][/\ gpioCleanups' # gpioCleanups => StopIssuedByShutdown
     /\ cameraReleases' # cameraReleases => gpioCleanups > 0
     /\ (mainPc' = "done" \/ clientPc' = "done") => gpioCleanups' = 1]_vars

C17_Witness ==
  /\ clientPc = "done"
  /\ exitCause = "exception"
  /\ engaged = "stop"
  /\ gpioCleanups = 1
  /\ cameraReleases = 1

\* C19: no hardware handle is used after it has been released, whatever
\* the interleaving of the shutdown block with the handler threads: no
\* GPIO.output is called after GPIO.cleanup() and no camera.read() after
\* camera.release().
C19_NoHandleUsedAfterRelease ==
  /\ \A t \in CmdThreads : cmdPc[t] # "failed"
  /\ \A s \in Streams : endCause[s] # "released"

(***************************************************************************)
(* Properties of the client loop                                           *)
(***************************************************************************)
ClientLoopPcs == {"read", "post", "execute", "except", "sleep"}

\* C7: when the /detect request times out or fails in transport, the
\* client calls stop() in that iteration and goes back to the camera read;
\* the failure itself never makes the loop end.
C7_RequestFailureStopsAndRetries ==
  outcome \in {"timeout", "transport"} =>
    /\ clientPc \in {"sleep", "read"} => iterCall = "stop" /\ engaged = "stop"
    /\ clientPc \notin ClientLoopPcs => exitCause \in {"read", "interrupt"}

C7_Witness ==
  /\ outcome = "timeout"
  /\ waited = POST_TIMEOUT
  /\ clientPc = "read"
  /\ exitCause = "none"
  /\ iterCall = "stop"

\* C8: when the /detect response has a status other than 200, the client
\* applies Stop in that iteration; the Direction applied before does not
\* stay engaged.
C8_Non200AppliesStop ==
  (outcome = "non200" /\ clientPc = "read") =>
    iterCall = "stop" /\ engaged = "stop"

\* C20: in the client, once a 200 response has been handled, the motor
\* function called in that iteration is forward, left or right exactly when
\* the action field of the body is that token, and stop() in every other
\* case: a missing field, an unknown token and also the token backward.
C20_ClientAppliesOnlyForwardLeftRight ==
  (outcome = "ok" /\ clientPc = "read") =>
    /\ iterCall = (IF bodyField \in {"forward", "left", "right"}
                     THEN bodyField ELSE "stop")
    /\ engaged = iterCall

C20_Witness ==
  /\ outcome = "ok"
  /\ clientPc = "read"
  /\ bodyField = "backward"
  /\ iterCall = "stop"
  /\ engaged = "stop"

====
